---- MODULE Spec2Model ----
(***************************************************************************)
(* Shop Lite API (src/main.py): the HTTP handlers over a document store.   *)
(* The store holds two collections, "product" and "order"; every handler   *)
(* is one request.  Strings that the code takes apart (identifiers) are    *)
(* sequences of one-character strings.                                     *)
(***************************************************************************)
EXTENDS Integers, Sequences, FiniteSets, TLC

VARIABLES env, product, order, nextOid, resp, created, seeder

vars == <<env, product, order, nextOid, resp, created, seeder>>

---------------------------------------------------------------------------
(* Bounds of the model *)

MaxWrites == 3
NumSeeders == 2
FirstOid == 9

(* Length of the hexadecimal text of a bson ObjectId *)
OidStrLen == 24

None == "None"

---------------------------------------------------------------------------
(* The module-level handle db: set only when both the connection string   *)
(* and the database name are present in the environment.                  *)

db == IF env.DATABASE_URL /\ env.DATABASE_NAME THEN "Database" ELSE None

---------------------------------------------------------------------------
(* bson.ObjectId: a native identifier, its text and its parser *)

HexChars == <<"0", "1", "2", "3", "4", "5", "6", "7", "8", "9",
              "a", "b", "c", "d", "e", "f">>

UpperHexChars == <<"0", "1", "2", "3", "4", "5", "6", "7", "8", "9",
                   "A", "B", "C", "D", "E", "F">>

HexDigits == {HexChars[i] : i \in 1..16} \cup {UpperHexChars[i] : i \in 1..16}

DigitValue(c) ==
    (CHOOSE i \in 1..16 : HexChars[i] = c \/ UpperHexChars[i] = c) - 1

RECURSIVE ToHex(_, _)
ToHex(n, width) ==
    IF width = 0 THEN <<>>
    ELSE Append(ToHex(n \div 16, width - 1), HexChars[(n % 16) + 1])

RECURSIVE FromHex(_)
FromHex(s) ==
    IF s = <<>> THEN 0
    ELSE FromHex(SubSeq(s, 1, Len(s) - 1)) * 16 + DigitValue(s[Len(s)])

NewObjectId(n) == [type |-> "ObjectId", value |-> n]

IsObjectId(v) == v.type = "ObjectId"

(* str(ObjectId): 24 lower-case hexadecimal characters *)
ObjectIdStr(oid) == ToHex(oid.value, OidStrLen)

(* ObjectId(text) raises InvalidId unless text is 24 hexadecimal characters *)
ObjectIdIsValid(s) ==
    /\ Len(s) = OidStrLen
    /\ \A i \in 1..Len(s) : s[i] \in HexDigits

ObjectId(s) == NewObjectId(FromHex(s))

---------------------------------------------------------------------------
(* Schemas *)

ProductFields == {"title", "description", "price", "category", "in_stock", "image"}

ProductOutFields == ProductFields \cup {"id"}

IsStr(v) == DOMAIN v = 1..Len(v)

samples == <<
    [title |-> "Minimal Tee",
     description |-> "Soft cotton t-shirt with relaxed fit.",
     price |-> 24,
     category |-> "Apparel",
     in_stock |-> TRUE,
     image |-> "https://images.unsplash.com/photo-1512436991641-6745cdb1723f?q=80&w=800&auto=format&fit=crop"],
    [title |-> "Everyday Backpack",
     description |-> "Water-resistant with laptop sleeve.",
     price |-> 79,
     category |-> "Bags",
     in_stock |-> TRUE,
     image |-> "https://images.unsplash.com/photo-1547949003-9792a18a2601?q=80&w=800&auto=format&fit=crop"],
    [title |-> "Ceramic Mug",
     description |-> "12oz glazed mug for hot and cold drinks.",
     price |-> 14,
     category |-> "Home",
     in_stock |-> TRUE,
     image |-> "https://images.unsplash.com/photo-1520975661595-6453be3f7070?q=80&w=800&auto=format&fit=crop"],
    [title |-> "Running Sneakers",
     description |-> "Breathable mesh, cushioned sole.",
     price |-> 110,
     category |-> "Footwear",
     in_stock |-> TRUE,
     image |-> "https://images.unsplash.com/photo-1542291026-7eec264c27ff?q=80&w=800&auto=format&fit=crop"]
>>

(* Request bodies that pass validation *)
ProductPayloads == {
    [title |-> "Desk Lamp", description |-> "Warm light.", price |-> 35,
     category |-> "Home", in_stock |-> TRUE, image |-> "https://example.com/lamp.jpg"],
    [title |-> "Minimal Tee", description |-> "Soft cotton t-shirt with relaxed fit.",
     price |-> 0, category |-> "Apparel", in_stock |-> FALSE,
     image |-> "https://example.com/tee.jpg"]
}

OrderPayloads == {
    [items |-> <<[product_id |-> ToHex(FirstOid, OidStrLen), quantity |-> 1]>>,
     total |-> 35],
    [items |-> <<[product_id |-> <<"n", "o", "n", "e">>, quantity |-> 2]>>,
     total |-> 0]
}

(* Path parameters of GET /api/products/{product_id}: the first identifiers *)
(* the store assigns, the first one after a seed, one it never assigns, and *)
(* one in upper case                                                        *)
WellFormedIds == {
    ToHex(FirstOid, OidStrLen),
    ToHex(FirstOid + 1, OidStrLen),
    ToHex(FirstOid + Len(samples), OidStrLen),
    ToHex(FirstOid + MaxWrites + Len(samples), OidStrLen),
    [i \in 1..OidStrLen |-> IF i = OidStrLen THEN "A" ELSE "0"]
}

MalformedIds == {
    <<>>,
    ToHex(FirstOid, OidStrLen - 1),
    ToHex(FirstOid, OidStrLen + 1),
    [i \in 1..OidStrLen |-> IF i = OidStrLen THEN "g" ELSE "0"]
}

ProductIds == WellFormedIds \cup MalformedIds

---------------------------------------------------------------------------
(* Helpers of the handlers *)

Restrict(f, S) == [k \in S |-> f[k]]

(* s[:n] *)
Prefix(s, n) == SubSeq(s, 1, IF Len(s) < n THEN Len(s) ELSE n)

(* A lookup that matches nothing yields a value that is false in a condition *)
NoDoc == [k \in {} |-> k]

Falsy(doc) == DOMAIN doc = {}

(* serialize_doc with the isinstance test never true: the record stays as stored *)
serialize_doc_unconverted(doc) == doc

(* serialize_doc without the del: id is added, _id stays *)
serialize_doc_keeps_native(doc) ==
    IF Falsy(doc) THEN doc
    ELSE IF "_id" \in DOMAIN doc /\ IsObjectId(doc["_id"])
         THEN doc @@ ("id" :> ObjectIdStr(doc["_id"]))
         ELSE doc

serialize_doc(doc) ==
    IF Falsy(doc) THEN doc
    ELSE IF "_id" \in DOMAIN doc /\ IsObjectId(doc["_id"])
         THEN [k \in (DOMAIN doc \ {"_id"}) \cup {"id"} |->
                  IF k = "id" THEN ObjectIdStr(doc["_id"]) ELSE doc[k]]
         ELSE doc

(* insert one record: the store assigns the next ObjectId *)
create_document(collection, data, n) ==
    Append(collection, data @@ ("_id" :> NewObjectId(n)))

(* all records of a collection, in insertion order *)
get_documents(collection) == collection

(* find_one({"_id": oid}) *)
find_one(collection, oid) ==
    IF \E i \in 1..Len(collection) : collection[i]["_id"] = oid
    THEN collection[CHOOSE i \in 1..Len(collection) : collection[i]["_id"] = oid]
    ELSE NoDoc

(* response_model=ProductOut: the declared fields, all required *)
ConformsToProductOut(d) == ProductOutFields \subseteq DOMAIN d /\ IsStr(d["id"])

Response(op, arg, status, body, exc, calls) ==
    [op |-> op, arg |-> arg, status |-> status, body |-> body,
     exc |-> exc, calls |-> calls]

HTTPException(op, arg, status, detail, exc, calls) ==
    Response(op, arg, status, [detail |-> detail], exc, calls)

InternalServerError(op, arg, exc, calls) ==
    Response(op, arg, 500, "Internal Server Error", exc, calls)

NotConfigured(op, arg) ==
    HTTPException(op, arg, 500, "Database not configured", "none", 0)

(* Successful create_product and create_order requests so far *)
Writes == Cardinality(created) + Len(order)

IdleSeeder == [pc |-> "start", count |-> 0, i |-> 1, inserted |-> 0,
               status |-> 0, reported |-> 0]

Init ==
    /\ env \in [DATABASE_URL : BOOLEAN, DATABASE_NAME : BOOLEAN]
    /\ product = <<>>
    /\ order = <<>>
    /\ nextOid = FirstOid
    /\ resp = Response("none", None, 0, None, "none", 0)
    /\ created = {}
    /\ seeder = [p \in 1..NumSeeders |-> IdleSeeder]

---------------------------------------------------------------------------
(* GET / and GET /api/hello *)

read_root ==
    /\ resp' = Response("read_root", None, 200,
                        [message |-> "Shop Lite Backend Running"], "none", 0)
    /\ UNCHANGED <<env, product, order, nextOid, created, seeder>>

hello ==
    /\ resp' = Response("hello", None, 200,
                        [message |-> "Hello from the backend API!"], "none", 0)
    /\ UNCHANGED <<env, product, order, nextOid, created, seeder>>

(* GET /test: the only handler that catches a store exception *)

list_collection_names ==
    (IF product = <<>> THEN <<>> ELSE <<"product">>)
    \o (IF order = <<>> THEN <<>> ELSE <<"order">>)

test_database_response(fail) ==
    LET database ==
            IF db = None THEN "Available but not initialized"
            ELSE IF fail THEN "Connected but Error"
            ELSE "Connected & Working"
        body == [backend |-> "Running",
                 database |-> database,
                 database_url |-> IF env.DATABASE_URL THEN "Set" ELSE "Not Set",
                 database_name |-> IF env.DATABASE_NAME THEN "Set" ELSE "Not Set",
                 connection_status |-> IF db = None THEN "Not Connected" ELSE "Connected",
                 collections |-> IF db = None \/ fail THEN <<>>
                                 ELSE Prefix(list_collection_names, 10)]
    IN  Response("test_database", None, 200, body,
                 IF db # None /\ fail THEN "store" ELSE "none",
                 IF db = None THEN 0 ELSE 1)

test_database ==
    \E fail \in BOOLEAN :
        /\ resp' = test_database_response(fail)
        /\ UNCHANGED <<env, product, order, nextOid, created, seeder>>

---------------------------------------------------------------------------
(* GET /api/products *)

(* list_products without the unconfigured branch: the store call raises *)
list_products_response_strict(fail) ==
    IF db = None \/ fail
    THEN InternalServerError("list_products", None, IF db = None THEN "none" ELSE "store",
                             IF db = None THEN 0 ELSE 1)
    ELSE LET docs == get_documents(product)
             out == [i \in 1..Len(docs) |-> serialize_doc(docs[i])]
         IN  Response("list_products", None, 200,
                      [i \in 1..Len(out) |-> Restrict(out[i], ProductOutFields)], "none", 1)

(* list_products that serializes all records but the last *)
list_products_response_short(fail) ==
    IF db = None THEN Response("list_products", None, 200, <<>>, "none", 0)
    ELSE IF fail THEN InternalServerError("list_products", None, "store", 1)
    ELSE LET docs == get_documents(product)
             out == [i \in 1..(Len(docs) - 1) |-> serialize_doc(docs[i])]
         IN  Response("list_products", None, 200,
                      [i \in 1..Len(out) |-> Restrict(out[i], ProductOutFields)], "none", 1)

list_products_response(fail) ==
    IF db = None THEN Response("list_products", None, 200, <<>>, "none", 0)
    ELSE IF fail THEN InternalServerError("list_products", None, "store", 1)
    ELSE LET docs == get_documents(product)
             out == [i \in 1..Len(docs) |-> serialize_doc(docs[i])]
         IN  IF \A i \in 1..Len(out) : ConformsToProductOut(out[i])
             THEN Response("list_products", None, 200,
                           [i \in 1..Len(out) |-> Restrict(out[i], ProductOutFields)],
                           "none", 1)
             ELSE InternalServerError("list_products", None, "response", 1)

list_products ==
    \E fail \in BOOLEAN :
        /\ resp' = list_products_response(fail)
        /\ UNCHANGED <<env, product, order, nextOid, created, seeder>>

---------------------------------------------------------------------------
(* POST /api/products *)

create_product ==
    \E P \in ProductPayloads, fail \in BOOLEAN :
        IF db = None
        THEN /\ resp' = NotConfigured("create_product", None)
             /\ UNCHANGED <<env, product, order, nextOid, created, seeder>>
        ELSE IF fail
        THEN /\ resp' = InternalServerError("create_product", None, "store", 1)
             /\ UNCHANGED <<env, product, order, nextOid, created, seeder>>
        ELSE LET inserted_id == ObjectIdStr(NewObjectId(nextOid))
             IN  /\ Writes < MaxWrites
                 /\ product' = create_document(product, P, nextOid)
                 /\ nextOid' = nextOid + 1
                 /\ resp' = Response("create_product", None, 200, inserted_id, "none", 1)
                 /\ created' = created \cup {[payload |-> P, id |-> inserted_id]}
                 /\ UNCHANGED <<env, order, seeder>>

---------------------------------------------------------------------------
(* GET /api/products/{product_id} *)

(* get_product with ObjectId(product_id) outside the try: InvalidId propagates *)
get_product_response_unguarded(product_id, fail) ==
    IF db = None THEN NotConfigured("get_product", product_id)
    ELSE IF ~ObjectIdIsValid(product_id)
    THEN InternalServerError("get_product", product_id, "InvalidId", 0)
    ELSE IF fail
    THEN HTTPException("get_product", product_id, 400, "Invalid product id", "store", 1)
    ELSE LET doc == find_one(product, ObjectId(product_id))
         IN  IF Falsy(doc)
             THEN HTTPException("get_product", product_id, 404, "Product not found",
                                "none", 1)
             ELSE Response("get_product", product_id, 200,
                           Restrict(serialize_doc(doc), ProductOutFields), "none", 1)

(* get_product without the test of the lookup's result *)
get_product_response_no_404(product_id, fail) ==
    IF db = None THEN NotConfigured("get_product", product_id)
    ELSE IF ~ObjectIdIsValid(product_id)
    THEN HTTPException("get_product", product_id, 400, "Invalid product id", "InvalidId", 0)
    ELSE IF fail
    THEN HTTPException("get_product", product_id, 400, "Invalid product id", "store", 1)
    ELSE LET out == serialize_doc(find_one(product, ObjectId(product_id)))
         IN  IF ~Falsy(out) /\ ConformsToProductOut(out)
             THEN Response("get_product", product_id, 200,
                           Restrict(out, ProductOutFields), "none", 1)
             ELSE InternalServerError("get_product", product_id, "response", 1)

get_product_response(product_id, fail) ==
    IF db = None THEN NotConfigured("get_product", product_id)
    ELSE IF ~ObjectIdIsValid(product_id)
    THEN HTTPException("get_product", product_id, 400, "Invalid product id", "InvalidId", 0)
    ELSE IF fail
    THEN HTTPException("get_product", product_id, 400, "Invalid product id", "store", 1)
    ELSE LET doc == find_one(product, ObjectId(product_id))
         IN  IF Falsy(doc)
             THEN HTTPException("get_product", product_id, 404, "Product not found",
                                "none", 1)
             ELSE LET out == serialize_doc(doc)
                  IN  IF ConformsToProductOut(out)
                      THEN Response("get_product", product_id, 200,
                                    Restrict(out, ProductOutFields), "none", 1)
                      ELSE InternalServerError("get_product", product_id, "response", 1)

get_product ==
    \E product_id \in ProductIds, fail \in BOOLEAN :
        /\ resp' = get_product_response(product_id, fail)
        /\ UNCHANGED <<env, product, order, nextOid, created, seeder>>

---------------------------------------------------------------------------
(* POST /api/products/seed, one request run to completion.  failAt = 0: the *)
(* store answers every call; 1: count_documents raises; k + 1: the k-th     *)
(* insert raises, after k - 1 records were inserted (the first and the      *)
(* last insert are the cases drawn).                                        *)

(* the first n passes of the loop over samples *)
RECURSIVE SeedInserts(_, _, _)
SeedInserts(collection, n, first) ==
    IF n = 0 THEN collection
    ELSE create_document(SeedInserts(collection, n - 1, first), samples[n], first + n - 1)

(* seed_products without the count guard *)
seed_products_unguarded ==
    IF db = None
    THEN /\ resp' = NotConfigured("seed_products", None)
         /\ UNCHANGED <<env, product, order, nextOid, created, seeder>>
    ELSE /\ Len(product) < 2 * Len(samples)
         /\ product' = SeedInserts(product, Len(samples), nextOid)
         /\ nextOid' = nextOid + Len(samples)
         /\ resp' = Response("seed_products", None, 200,
                             [inserted |-> Len(samples)], "none", 1 + Len(samples))
         /\ UNCHANGED <<env, order, created, seeder>>

seed_products ==
    \E failAt \in {0, 1, 2, Len(samples) + 1} :
        IF db = None
        THEN /\ resp' = NotConfigured("seed_products", None)
             /\ UNCHANGED <<env, product, order, nextOid, created, seeder>>
        ELSE IF failAt = 1
        THEN /\ resp' = InternalServerError("seed_products", None, "store", 1)
             /\ UNCHANGED <<env, product, order, nextOid, created, seeder>>
        ELSE IF Len(get_documents(product)) > 0
        THEN /\ resp' = Response("seed_products", None, 200,
                                 [inserted |-> 0, message |-> "Products already exist"],
                                 "none", 1)
             /\ UNCHANGED <<env, product, order, nextOid, created, seeder>>
        ELSE LET n == IF failAt = 0 THEN Len(samples) ELSE failAt - 2
             IN  /\ product' = SeedInserts(product, n, nextOid)
                 /\ nextOid' = nextOid + n
                 /\ resp' = IF failAt = 0
                            THEN Response("seed_products", None, 200,
                                          [inserted |-> n], "none", 1 + n)
                            ELSE InternalServerError("seed_products", None, "store", 2 + n)
                 /\ UNCHANGED <<env, order, created, seeder>>

---------------------------------------------------------------------------
(* POST /api/orders *)

(* create_order writing to the product collection *)
create_order_into_product ==
    \E O \in OrderPayloads :
        IF db = None
        THEN /\ resp' = NotConfigured("create_order", None)
             /\ UNCHANGED <<env, product, order, nextOid, created, seeder>>
        ELSE /\ Len(product) < MaxWrites + Len(samples)
             /\ product' = create_document(product, O, nextOid)
             /\ nextOid' = nextOid + 1
             /\ resp' = Response("create_order", None, 200,
                                 ObjectIdStr(NewObjectId(nextOid)), "none", 1)
             /\ UNCHANGED <<env, order, created, seeder>>

create_order ==
    \E O \in OrderPayloads, fail \in BOOLEAN :
        IF db = None
        THEN /\ resp' = NotConfigured("create_order", None)
             /\ UNCHANGED <<env, product, order, nextOid, created, seeder>>
        ELSE IF fail
        THEN /\ resp' = InternalServerError("create_order", None, "store", 1)
             /\ UNCHANGED <<env, product, order, nextOid, created, seeder>>
        ELSE LET inserted_id == ObjectIdStr(NewObjectId(nextOid))
             IN  /\ Writes < MaxWrites
                 /\ order' = create_document(order, O, nextOid)
                 /\ nextOid' = nextOid + 1
                 /\ resp' = Response("create_order", None, 200, inserted_id, "none", 1)
                 /\ UNCHANGED <<env, product, created, seeder>>

---------------------------------------------------------------------------
(* POST /api/products/seed under concurrent requests: each request is a    *)
(* thread of the server's pool, and each store call is one step.           *)

SeedCount(p) ==
    \E fail \in BOOLEAN :
        /\ seeder[p].pc = "start"
        /\ seeder' = [seeder EXCEPT ![p] =
              IF db = None \/ fail
              THEN [@ EXCEPT !.pc = "done", !.status = 500]
              ELSE IF Len(product) > 0
              THEN [@ EXCEPT !.pc = "done", !.status = 200, !.reported = 0,
                             !.count = Len(product)]
              ELSE [@ EXCEPT !.pc = "insert", !.count = 0]]
        /\ UNCHANGED <<env, product, order, nextOid, resp, created>>

SeedInsert(p) ==
    \E fail \in BOOLEAN :
        /\ seeder[p].pc = "insert"
        /\ IF fail
           THEN /\ seeder' = [seeder EXCEPT ![p] = [@ EXCEPT !.pc = "done", !.status = 500]]
                /\ UNCHANGED <<product, nextOid>>
           ELSE /\ product' = create_document(product, samples[seeder[p].i], nextOid)
                /\ nextOid' = nextOid + 1
                /\ seeder' = [seeder EXCEPT ![p] =
                      IF @.i = Len(samples)
                      THEN [@ EXCEPT !.pc = "done", !.status = 200, !.i = @ + 1,
                                     !.inserted = @ + 1, !.reported = seeder[p].inserted + 1]
                      ELSE [@ EXCEPT !.i = @ + 1, !.inserted = @ + 1]]
        /\ UNCHANGED <<env, order, resp, created>>

---------------------------------------------------------------------------
(* Requests served one after the other *)

Next ==
    \/ read_root
    \/ hello
    \/ test_database
    \/ list_products
    \/ create_product
    \/ get_product
    \/ seed_products
    \/ create_order

Spec == Init /\ [][Next]_vars

(* Concurrent seed requests *)

NextConc == \E p \in 1..NumSeeders : SeedCount(p) \/ SeedInsert(p)

SpecConc == Init /\ [][NextConc]_vars

---------------------------------------------------------------------------
(* Vocabulary of the properties *)

Configured == db # None

(* The record a client is to receive for payload P stored under identifier I *)
Expected(P, I) == P @@ ("id" :> I)

IsGet == resp.op = "get_product"

IsList == resp.op = "list_products"

(* The last request got its answers from the store (no store exception) *)
StoreAnswered == resp.exc # "store"

(* A record returned to a client: a string id, no native identifier *)
ClientRecord(d) ==
    /\ "id" \in DOMAIN d
    /\ IsStr(d["id"])
    /\ Len(d["id"]) = OidStrLen
    /\ "_id" \notin DOMAIN d

---------------------------------------------------------------------------
(* C1: with the store configured, every identifier I that create_product   *)
(* returned for a payload P can be read back in every later state:         *)
(* get_product(I) answers 200 with exactly the fields of P plus id = I,    *)
(* whatever create_product, create_order or seed_products requests ran     *)
(* in between (the store answering the lookup).                            *)
C1_CreateThenGet ==
    Configured =>
        \A c \in created :
            /\ get_product_response(c.id, FALSE).status = 200
            /\ get_product_response(c.id, FALSE).body = Expected(c.payload, c.id)
            /\ (IsGet /\ StoreAnswered /\ resp.arg = c.id) =>
                   /\ resp.status = 200
                   /\ resp.body = Expected(c.payload, c.id)
                   /\ DOMAIN resp.body = ProductFields \cup {"id"}

(* a created product was read back after another product and an order were *)
(* created and a seed request ran                                           *)
C1_Witness ==
    /\ Configured
    /\ IsGet
    /\ resp.status = 200
    /\ \E c \in created : resp.arg = c.id /\ resp.body = Expected(c.payload, c.id)
    /\ Cardinality(created) >= 2
    /\ order # <<>>
    /\ Len(product) > Cardinality(created)

---------------------------------------------------------------------------
(* C2: with the store configured and answering, a seed_products request on *)
(* an empty product collection inserts exactly the 4 fixed samples and     *)
(* reports inserted = 4; a seed_products request on a collection that      *)
(* holds records (so the second of two calls in a row) reports             *)
(* inserted = 0 and leaves the collection unchanged.                       *)
C2_SeedTwice ==
    [][(resp'.op = "seed_products" /\ Configured /\ resp'.exc # "store") =>
          IF product = <<>>
          THEN /\ resp'.status = 200
               /\ resp'.body = [inserted |-> 4]
               /\ Len(product') = 4
               /\ \A k \in 1..4 : Restrict(product'[k], ProductFields) = samples[k]
               /\ \A j, k \in 1..4 : j # k => product'[j]["_id"] # product'[k]["_id"]
          ELSE /\ resp'.status = 200
               /\ resp'.body.inserted = 0
               /\ product' = product]_vars

(* the second call: it reported 0 and the collection is the 4 samples *)
C2_Witness ==
    /\ Configured
    /\ resp.op = "seed_products"
    /\ resp.status = 200
    /\ resp.body.inserted = 0
    /\ Len(product) = 4
    /\ \A k \in 1..4 : Restrict(product[k], ProductFields) = samples[k]

---------------------------------------------------------------------------
(* C3 as stated: get_product with a syntactically invalid id answers 400   *)
(* in every state of the store, configured or not.                         *)
C3_InvalidIdAlways400 ==
    (IsGet /\ resp.arg \in MalformedIds) => resp.status = 400

(* C3 as amended: with the store configured, get_product with a            *)
(* syntactically invalid id answers 400 (never 404 or 500), whatever the   *)
(* product collection holds; with the store unconfigured it answers 500.   *)
C3_InvalidIdConfigured400 ==
    (IsGet /\ resp.arg \in MalformedIds) =>
        /\ Configured => (resp.status = 400 /\ resp.calls = 0)
        /\ ~Configured => resp.status = 500

C3_Witness ==
    /\ Configured
    /\ IsGet
    /\ resp.arg \in MalformedIds
    /\ resp.arg # <<>>
    /\ resp.status = 400
    /\ product # <<>>

---------------------------------------------------------------------------
(* C4: with the store configured and answering, get_product with a         *)
(* well-formed id that no record of the product collection carries         *)
(* answers 404, after any sequence of creations and seeds.                 *)
NoProductHas(id) ==
    \A i \in 1..Len(product) : product[i]["_id"].value # FromHex(id)

C4_MissingIs404 ==
    (Configured /\ IsGet /\ StoreAnswered /\ resp.arg \in WellFormedIds
        /\ NoProductHas(resp.arg)) =>
        /\ resp.status = 404
        /\ resp.body = [detail |-> "Product not found"]

(* the id asked for belongs to an order, not to a product *)
C4_Witness ==
    /\ Configured
    /\ IsGet
    /\ resp.status = 404
    /\ product # <<>>
    /\ \E i \in 1..Len(order) : ObjectIdStr(order[i]["_id"]) = resp.arg

---------------------------------------------------------------------------
(* C5: with the store unconfigured, list_products answers 200 with an      *)
(* empty sequence, create_product, seed_products and create_order answer   *)
(* 500, and none of them calls the store.                                  *)
C5_UnconfiguredAsymmetry ==
    ~Configured =>
        /\ IsList => (resp.status = 200 /\ resp.body = <<>> /\ resp.calls = 0)
        /\ resp.op \in {"create_product", "seed_products", "create_order"} =>
               /\ resp.status = 500
               /\ resp.body = [detail |-> "Database not configured"]
               /\ resp.calls = 0
        /\ product = <<>>
        /\ order = <<>>
        /\ nextOid = FirstOid

C5_Witness ==
    /\ ~Configured
    /\ resp.op = "create_product"
    /\ resp.status = 500

---------------------------------------------------------------------------
(* C6: with the store configured, list_products returns at least as many   *)
(* records as create_product calls succeeded and contains every created    *)
(* record under the identifier its creation returned; no request removes   *)
(* or alters a record of the product collection.                           *)
ListsAllCreated(r) ==
    /\ r.status = 200
    /\ Len(r.body) >= Cardinality(created)
    /\ \A c \in created :
           \E i \in 1..Len(r.body) : r.body[i] = Expected(c.payload, c.id)

ProductsKept ==
    /\ Len(product') >= Len(product)
    /\ \A i \in 1..Len(product) : product'[i] = product[i]

C6_ListHasAllCreated ==
    /\ [](Configured =>
            /\ ListsAllCreated(list_products_response(FALSE))
            /\ (IsList /\ StoreAnswered) => ListsAllCreated(resp))
    /\ [][ProductsKept]_vars

C6_Witness ==
    /\ Configured
    /\ IsList
    /\ resp.status = 200
    /\ Cardinality(created) >= 2
    /\ Len(resp.body) > Cardinality(created)

---------------------------------------------------------------------------
(* C7: every record list_products or get_product returns carries a string  *)
(* id and no _id, and so does the serialized form of every record of the   *)
(* product collection, whose id is the text of the record's native         *)
(* identifier.                                                             *)
C7_IdNeverNative ==
    /\ (IsGet /\ resp.status = 200) => ClientRecord(resp.body)
    /\ (IsList /\ resp.status = 200) =>
           \A i \in 1..Len(resp.body) : ClientRecord(resp.body[i])
    /\ \A i \in 1..Len(product) :
           /\ ClientRecord(serialize_doc(product[i]))
           /\ serialize_doc(product[i])["id"] = ToHex(product[i]["_id"].value, OidStrLen)

(* a list of seeded and created records was returned *)
C7_Witness ==
    /\ IsList
    /\ resp.status = 200
    /\ Len(resp.body) > Len(samples)
    /\ \A i \in 1..Len(resp.body) : ClientRecord(resp.body[i])

---------------------------------------------------------------------------
(* C8: with the store configured and answering, create_order answers 200   *)
(* with an identifier no record had before, whatever the product           *)
(* collection holds and whatever product ids the body names, and leaves    *)
(* the product collection unchanged.                                       *)
IdInUse(id) ==
    \/ \E i \in 1..Len(product) : ObjectIdStr(product[i]["_id"]) = id
    \/ \E i \in 1..Len(order) : ObjectIdStr(order[i]["_id"]) = id

C8_OrderIgnoresProducts ==
    [][(resp'.op = "create_order" /\ Configured /\ resp'.exc # "store") =>
          /\ resp'.status = 200
          /\ ~IdInUse(resp'.body)
          /\ product' = product
          /\ Len(order') = Len(order) + 1
          /\ ObjectIdStr(order'[Len(order')]["_id"]) = resp'.body]_vars

(* an order naming a product id was accepted while no product existed *)
C8_Witness ==
    /\ Configured
    /\ resp.op = "create_order"
    /\ resp.status = 200
    /\ product = <<>>
    /\ \E i \in 1..Len(order) :
           /\ ObjectIdStr(order[i]["_id"]) = resp.body
           /\ order[i].items[1].product_id = ToHex(FirstOid, OidStrLen)

---------------------------------------------------------------------------
(* C9: a store exception raised during a store call of any handler other   *)
(* than /test reaches the client as a 500.                                 *)
C9_StoreExceptionIs500 ==
    (resp.exc = "store" /\ resp.op # "test_database") => resp.status = 500

---------------------------------------------------------------------------
(* C10: under concurrent seed_products requests on an empty collection     *)
(* the sample set is inserted at most once: the collection never holds     *)
(* more than 4 records, and when every request has answered 200 the        *)
(* reported inserted counts sum to 4.                                      *)
RECURSIVE SumReported(_)
SumReported(n) == IF n = 0 THEN 0 ELSE seeder[n].reported + SumReported(n - 1)

C10_SeedAtMostOnce ==
    /\ Len(product) <= 4
    /\ (\A p \in 1..NumSeeders : seeder[p].pc = "done" /\ seeder[p].status = 200) =>
           SumReported(NumSeeders) = 4

====
